---- MODULE Spec2Model ----
(***************************************************************************)
(* Model of the japan-postal-code converter: the partitioner               *)
(* (scripts/utils.py), the CSV reader (scripts/utils.py), the format sinks *)
(* (scripts/formats/*.py) and the whole-dataset fan-out of main.main       *)
(* (scripts/main.py).                                                      *)
(*                                                                         *)
(* A string is a sequence of characters, each a one-character TLA+ string. *)
(* A record carries its postal_code and a town_name that tells records of  *)
(* one code apart; its other fields take no part in the pipeline.          *)
(* A Python dict is a sequence of [key, value] entries in insertion order. *)
(***************************************************************************)
EXTENDS Integers, Sequences, FiniteSets, TLC

VARIABLES
    pc,             \* position of the driver of the specification at hand
    data,           \* List[JapanPostalCode]: the records handed to the pipeline
    grouped,        \* result of group_by_postal_code_prefix
    skipped_count,  \* group_by_postal_code_prefix: skipped_count
    fmt,            \* the format module under execution (formats/<fmt>_format.py)
    lib_present,    \* whether that module's optional library was imported
    tasks,          \* save_grouped_<fmt>: the list `tasks`, one entry per coroutine
    tstate,         \* state of each coroutine of `tasks`
    sem_value,      \* asyncio.Semaphore._value of the call's semaphore
    call,           \* states of the save_<fmt> and save_grouped_<fmt> calls
    files,          \* the destination file tree: path -> content
    dirs,           \* the directories made under the destination
    writes,         \* how many times a write of each path was run
    prev,           \* the run of the write phase, and the tree the first run left
    progress,       \* the global ProgressManager
    lim,            \* one save_grouped_<fmt> call seen as task counts
    conc,           \* two save_grouped_<fmt> calls of one event loop, as counts
    mdata,          \* main.main: `data`, the value of main.read_csv_data
    msink,          \* main.main: state of each save_<fmt> coroutine of the gather
    missing,        \* main.main: the optional libraries that failed to import
    mfiles,         \* main.main: the all_data file of each format
    exit_code,      \* exit status of the process, once pc = "exited"
    rows,           \* read_csv_data: the rows of the CSV file
    rd              \* read_csv_data: state of the reading loop

vars == <<pc, data, grouped, skipped_count, fmt, lib_present, tasks, tstate,
          sem_value, call, files, dirs, writes, prev, progress, lim, conc, mdata,
          msink, missing, mfiles, exit_code, rows, rd>>

partVars == <<data, grouped, skipped_count>>
sinkVars == <<fmt, lib_present, tasks, tstate, sem_value, call, files, dirs,
              writes, prev, progress>>
limVars == <<lim, conc>>
mainVars == <<mdata, msink, missing, mfiles>>
readVars == <<rows, rd>>

-----------------------------------------------------------------------------
(* Bounds of the model *)

\* longest input sequence handed to the partitioner
MaxLen == 3
\* most file writes that raise within one save_grouped_<fmt> call
MaxRaises == 1
\* most coroutines one save_grouped_<fmt> call creates, as counts
MaxTasks == 102
\* most optional libraries absent in one run of main.main
MaxMissing == 1
\* most rows in the CSV file handed to read_csv_data
MaxRows == 3
\* most rows in the CSV file of a whole run of main.main
MaxMainRows == 2
\* worker threads of the event loop's default executor, which runs every
\* asyncio.to_thread call: min(32, os.cpu_count() + 4), here for one CPU
PoolWorkers == 5
\* longest postal_code string supplied to the JapanPostalCode constructor
MaxCodeLen == 8
\* longest old_postal_code string supplied to the constructor
MaxOldLen == 6

-----------------------------------------------------------------------------
(* Records *)

PC_1760005 == <<"1", "7", "6", "0", "0", "0", "5">>
PC_1760006 == <<"1", "7", "6", "0", "0", "0", "6">>
PC_1000001 == <<"1", "0", "0", "0", "0", "0", "1">>
PC_123 == <<"1", "2", "3">>

Rec(code, town) == [postal_code |-> code, town_name |-> town]

\* records as models.JapanPostalCode validates them (7 digits); 1760005 has
\* two towns, so that two different records share one postal code
ValidRecords == {Rec(PC_1760005, "a"), Rec(PC_1760005, "b"),
                 Rec(PC_1760006, "a"), Rec(PC_1000001, "a")}
\* the records written by the sinks: one per postal code
SinkRecords == {Rec(PC_1760005, "a"), Rec(PC_1760006, "a"),
                Rec(PC_1000001, "a")}
\* records that reach the partitioner, validated or not
AllRecords == ValidRecords \cup {Rec(PC_123, "a")}
\* the postal_code of a record built without one, JapanPostalCode(): the
\* default None, which is not validated.  None is written as the one-token
\* code <<"None">> and is never taken for a string.
NoneCode == <<"None">>
\* records as any caller can hand them to the partitioner
UncheckedRecords == AllRecords \cup {Rec(NoneCode, "a")}

\* the three records of the scenario 1760005, 1760006, 1000001
Scenario3 ==
    <<Rec(PC_1760005, "a"), Rec(PC_1760006, "a"), Rec(PC_1000001, "a")>>

SeqsUpTo(S, n) == UNION {[1..k -> S] : k \in 0..n}

-----------------------------------------------------------------------------
(* Python dict, insertion ordered: a sequence of [key, value] entries *)

HasKey(d, k) == \E i \in 1..Len(d) : d[i].key = k
KeyIndex(d, k) == CHOOSE i \in 1..Len(d) : d[i].key = k
Get(d, k) == d[KeyIndex(d, k)].value
Keys(d) == [i \in 1..Len(d) |-> d[i].key]
Values(d) == [i \in 1..Len(d) |-> d[i].value]
\* defaultdict: d[k] creates the entry with the default on first access
WithDefault(d, k, default) ==
    IF HasKey(d, k) THEN d ELSE Append(d, [key |-> k, value |-> default])
Put(d, k, v) ==
    IF HasKey(d, k) THEN [d EXCEPT ![KeyIndex(d, k)].value = v]
    ELSE Append(d, [key |-> k, value |-> v])

-----------------------------------------------------------------------------
(* scripts/utils.py: group_by_postal_code_prefix *)

Prefix(postal_code) == SubSeq(postal_code, 1, 3)
Suffix(postal_code) == SubSeq(postal_code, 4, Len(postal_code))

AppendMutantDropsRepeat(g, record) ==
    LET prefix == Prefix(record.postal_code)
        suffix == Suffix(record.postal_code)
        g1 == WithDefault(g, prefix, <<>>)
    IN Put(g1, prefix, Put(Get(g1, prefix), suffix, <<record>>))

\* grouped[prefix][suffix].append(record), on defaultdicts
GroupedAppend(g, record) ==
    LET prefix == Prefix(record.postal_code)
        suffix == Suffix(record.postal_code)
        g1 == WithDefault(g, prefix, <<>>)
        sd == WithDefault(Get(g1, prefix), suffix, <<>>)
    IN Put(g1, prefix, Put(sd, suffix, Append(Get(sd, suffix), record)))

GroupStepMutantTouchesBucket(st, record) ==
    IF st.raised THEN st
    ELSE IF record.postal_code = NoneCode THEN [st EXCEPT !.raised = TRUE]
    ELSE LET prefix == Prefix(record.postal_code)
             suffix == Suffix(record.postal_code)
             g1 == WithDefault(st.grouped, prefix, <<>>)
             touched == Put(g1, prefix, WithDefault(Get(g1, prefix), suffix, <<>>))
         IN IF Len(record.postal_code) # 7
            THEN [st EXCEPT !.grouped = touched, !.skipped_count = @ + 1]
            ELSE [st EXCEPT !.grouped = GroupedAppend(@, record)]

GroupStepMutantSkipUncounted(st, record) ==
    IF st.raised THEN st
    ELSE IF record.postal_code = NoneCode THEN [st EXCEPT !.raised = TRUE]
    ELSE IF Len(record.postal_code) # 7 THEN st
    ELSE [st EXCEPT !.grouped = GroupedAppend(@, record)]

\* one iteration of `for record in data`
GroupStep(st, record) ==
    IF st.raised THEN st
    ELSE IF record.postal_code = NoneCode
    THEN \* len(None) raises TypeError, which nothing in the function catches
         [st EXCEPT !.raised = TRUE]
    ELSE IF Len(record.postal_code) # 7
    THEN [st EXCEPT !.skipped_count = @ + 1]
    ELSE [st EXCEPT !.grouped = GroupedAppend(@, record)]

RECURSIVE GroupLoop(_, _, _)
GroupLoop(st, d, i) ==
    IF i > Len(d) THEN st ELSE GroupLoop(GroupStep(st, d[i]), d, i + 1)

GroupMutantSharedDict(d) ==
    GroupLoop([grouped |-> grouped, skipped_count |-> 0, raised |-> FALSE], d, 1)

\* grouped = defaultdict(...); skipped_count = 0; the loop; return result
group_by_postal_code_prefix(d) ==
    GroupLoop([grouped |-> <<>>, skipped_count |-> 0, raised |-> FALSE], d, 1)

-----------------------------------------------------------------------------
(* scripts/progress_manager.py: ProgressManager *)

\* A manager is in simple mode (CI, no terminal, no rich) or drives a rich
\* Progress.  task_status is the simple-mode dict; tasks maps a name to its
\* rich TaskID and rich_tasks[id + 1] is that rich task.
NewProgressManager(simple) ==
    [simple_mode |-> simple, task_status |-> <<>>, tasks |-> <<>>,
     rich_tasks |-> <<>>]

\* ProgressManager.add_task: the manager afterwards
add_task(p, name, total) ==
    IF p.simple_mode
    THEN [p EXCEPT !.task_status =
                       Put(@, name, [completed |-> 0, total |-> total])]
    ELSE [p EXCEPT !.rich_tasks = Append(@, [completed |-> 0, total |-> total]),
                   !.tasks = Put(@, name, Len(p.rich_tasks))]

TaskIdIsNoneMutantReturnsId(p) == FALSE

\* ProgressManager.add_task: the value returned, None in simple mode
TaskIdIsNone(p) == p.simple_mode

\* ProgressManager.update
update(p, name, advance) ==
    IF p.simple_mode
    THEN IF HasKey(p.task_status, name)
         THEN [p EXCEPT !.task_status =
                  Put(@, name, [Get(@, name) EXCEPT !.completed = @ + advance])]
         ELSE p
    ELSE IF HasKey(p.tasks, name)
         THEN [p EXCEPT !.rich_tasks[Get(p.tasks, name) + 1].completed =
                            @ + advance]
         ELSE p

\* the callers' `if progress_mgr and task_id is not None: update(name, 1)`
AdvanceIfTask(p, name) == IF TaskIdIsNone(p) THEN p ELSE update(p, name, 1)

-----------------------------------------------------------------------------
(* scripts/formats/*.py: the format sinks *)

Formats == {"json", "csv", "ndjson", "xml", "toml", "bson", "msgpack",
            "parquet", "sqlite"}
\* sqlite_format.py has save_sqlite only
GroupedFormats == Formats \ {"sqlite"}
\* the modules that import their encoder in a try/except ImportError
OptionalFormats == {"toml", "bson", "msgpack", "parquet"}

ExtMutantOneExtension(f) == "out"

\* the extension of the files of a format
Ext(f) == IF f = "sqlite" THEN "db" ELSE f

\* asyncio.Semaphore(100), and asyncio.Semaphore(50) in parquet_format.py
DefaultLimit == 100
ParquetLimit == 50
Limit(f) == IF f = "parquet" THEN ParquetLimit ELSE DefaultLimit

\* progress task names
GroupedTaskName(f) ==
    CASE f = "json" -> "JSON" [] f = "csv" -> "CSV" [] f = "ndjson" -> "NDJSON"
      [] f = "xml" -> "XML" [] f = "toml" -> "TOML" [] f = "bson" -> "BSON"
      [] f = "msgpack" -> "MessagePack" [] f = "parquet" -> "Parquet"
AllDataTaskName(f) == "all_data." \o Ext(f)

\* paths under datasets_dir
AllDataFile(f) == [kind |-> "all", dir |-> <<>>, name |-> <<>>, ext |-> Ext(f)]
PrefixFile(f, prefix) ==
    [kind |-> "prefix", dir |-> <<>>, name |-> prefix, ext |-> Ext(f)]
SuffixFile(f, prefix, suffix) ==
    [kind |-> "suffix", dir |-> prefix, name |-> suffix, ext |-> Ext(f)]

\* what a write is handed: a list of records, or one record outside any list
ListOf(records) == [shape |-> "list", records |-> records]
Bare(record) == [shape |-> "bare", records |-> <<record>>]

RECURSIVE ConcatAll(_)
ConcatAll(ss) == IF ss = <<>> THEN <<>> ELSE Head(ss) \o ConcatAll(Tail(ss))

PrefixRecordsMutantLastSuffixFirst(suffix_dict) ==
    ConcatAll([j \in 1..Len(suffix_dict) |->
                  suffix_dict[Len(suffix_dict) + 1 - j].value])

PrefixRecordsMutantFirstBucket(suffix_dict) ==
    IF suffix_dict = <<>> THEN <<>> ELSE suffix_dict[1].value

\* all_prefix_records: every suffix bucket of the prefix, extended in turn
PrefixRecords(suffix_dict) == ConcatAll(Values(suffix_dict))

PrefixListMutantFirstBucket == "first_bucket"

\* `all_prefix_records = []`: the list that is extended is a new object, not
\* a bucket of the index
PrefixListObject == "new"

\* `for suffix_records in suffix_dict.values():
\*      all_prefix_records.extend(suffix_records)`: the list built and the
\* suffix dict as the loop leaves it
RECURSIVE ExtendLoop(_, _)
ExtendLoop(st, j) ==
    IF j > Len(st.dict) THEN st
    ELSE LET extended == st.all \o st.dict[j].value
         IN ExtendLoop([all |-> extended,
                        dict |-> IF PrefixListObject = "new" THEN st.dict
                                 ELSE [st.dict EXCEPT ![1].value = extended]],
                       j + 1)

\* grouped_data after the loop over its prefixes in save_grouped_<fmt>
IndexAfterBuild(g) ==
    [i \in 1..Len(g) |->
        [key |-> g[i].key,
         value |-> ExtendLoop([all |-> <<>>, dict |-> g[i].value], 1).dict]]

\* `records if len(records) > 1 else records[0]`; records[0] of an empty
\* bucket raises IndexError
SuffixArgument(records) ==
    IF Len(records) > 1 THEN ListOf(records) ELSE Bare(records[1])

TasksOfPrefixMutantNoPrefixFile(f, entry) ==
    [j \in 1..Len(entry.value) |->
        [path |-> SuffixFile(f, entry.key, entry.value[j].key),
         payload |-> SuffixArgument(entry.value[j].value)]]

\* the coroutines appended to `tasks` for one prefix
TasksOfPrefix(f, entry) ==
    <<[path |-> PrefixFile(f, entry.key),
       payload |-> ListOf(PrefixRecords(entry.value))]>>
    \o [j \in 1..Len(entry.value) |->
          [path |-> SuffixFile(f, entry.key, entry.value[j].key),
           payload |-> SuffixArgument(entry.value[j].value)]]

\* `for prefix, suffix_dict in grouped_data.items()`: the whole list `tasks`
BuildTasks(f, g) == ConcatAll([i \in 1..Len(g) |-> TasksOfPrefix(f, g[i])])

\* a bucket on which records[0] raises
HasEmptyBucket(g) ==
    \E i \in 1..Len(g) : \E j \in 1..Len(g[i].value) : g[i].value[j].value = <<>>

\* total_files = sum(1 + len(suffix_dict) ...)
RECURSIVE SumSeq(_)
SumSeq(ns) == IF ns = <<>> THEN 0 ELSE Head(ns) + SumSeq(Tail(ns))
TotalFiles(g) == SumSeq([i \in 1..Len(g) |-> 1 + Len(g[i].value)])

\* _save of save_single_<fmt>_file: the file a completed write leaves.
\* json dumps its argument as it is; csv writes one row per dict after the
\* header, writerow for a bare dict; the others wrap a bare record in a list.
SavedFile(f, payload) ==
    CASE f = "json" -> payload
      [] f = "csv" -> ListOf(payload.records)
      [] OTHER -> ListOf(payload.records)

\* a write that raised after open() leaves a truncated file
Truncated == [shape |-> "truncated", records |-> <<>>]

-----------------------------------------------------------------------------
(* State shared by the specifications: what each leaves untouched *)

NoCall == [save |-> "none", grouped |-> "none"]
NoPrev == [run |-> 1, files |-> <<>>, dirs |-> {}]
NoLim == [n |-> 0, waiting |-> 0, holders |-> 0, done |-> 0, raised |-> 0,
          call |-> "none"]
NoConc == [blocked |-> FALSE, queue |-> <<>>, calls |-> <<>>]
NoRead == [path |-> "none", pd |-> FALSE, i |-> 0, data |-> <<>>,
           errors |-> <<>>, fallback_at |-> -1]

IdlePart == data = <<>> /\ grouped = <<>> /\ skipped_count = 0
IdleSink ==
    /\ fmt = "json" /\ lib_present = TRUE
    /\ tasks = <<>> /\ tstate = <<>> /\ sem_value = 0 /\ call = NoCall
    /\ files = <<>> /\ dirs = {} /\ writes = <<>> /\ prev = NoPrev
    /\ progress = NewProgressManager(TRUE)
IdleLim == lim = NoLim /\ conc = NoConc
IdleMain ==
    /\ mdata = [is_none |-> FALSE, items |-> <<>>]
    /\ msink = <<>> /\ missing = {} /\ mfiles = <<>>
IdleRead == rows = <<>> /\ rd = NoRead

-----------------------------------------------------------------------------
(* The partitioner applied to the records read *)

\* data = read_csv_data(...); grouped = group_by_postal_code_prefix(data)
Group ==
    /\ pc = "start"
    /\ LET r == group_by_postal_code_prefix(data)
       IN IF r.raised
          THEN \* the exception leaves the call; no result is bound
               /\ pc' = "raised"
               /\ UNCHANGED <<grouped, skipped_count>>
          ELSE /\ grouped' = r.grouped
               /\ skipped_count' = r.skipped_count
               /\ pc' = "grouped"
    /\ UNCHANGED <<data, sinkVars, limVars, mainVars, exit_code, readVars>>

InitPartition ==
    /\ pc = "start"
    /\ data \in SeqsUpTo(UncheckedRecords, MaxLen)
    /\ grouped = <<>> /\ skipped_count = 0
    /\ IdleSink /\ IdleLim /\ IdleMain /\ IdleRead /\ exit_code = 0

\* the function is called a second time on the same list
GroupAgain ==
    /\ pc \in {"grouped", "raised"}
    /\ LET r == group_by_postal_code_prefix(data)
       IN IF r.raised
          THEN /\ pc' = "raised_again"
               /\ UNCHANGED <<grouped, skipped_count>>
          ELSE /\ grouped' = r.grouped
               /\ skipped_count' = r.skipped_count
               /\ pc' = "grouped_again"
    /\ UNCHANGED <<data, sinkVars, limVars, mainVars, exit_code, readVars>>

NextPartition == Group \/ GroupAgain

SpecPartition == InitPartition /\ [][NextPartition]_vars

-----------------------------------------------------------------------------
(* Properties of the partitioner *)

\* grouped[prefix][suffix], the empty sequence where a key is missing
Bucket(g, postal_code) ==
    IF HasKey(g, Prefix(postal_code))
       /\ HasKey(Get(g, Prefix(postal_code)), Suffix(postal_code))
    THEN Get(Get(g, Prefix(postal_code)), Suffix(postal_code))
    ELSE <<>>

WithCode(records, postal_code) ==
    SelectSeq(records, LAMBDA r : r.postal_code = postal_code)

\* C1: for every input and every 7-character postal code p, the bucket
\* group_by_postal_code_prefix(data)[p[:3]][p[3:]] is exactly the subsequence
\* of data whose postal_code is p, in the order of data.
C1_BucketIsSubsequence ==
    pc = "grouped" =>
        \A r \in AllRecords :
            Len(r.postal_code) = 7 =>
                Bucket(grouped, r.postal_code) = WithCode(data, r.postal_code)

\* C1 witness: two records of 1760005 with a record of 1760006 between them
\* have been partitioned.
C1_Witness ==
    /\ pc = "grouped"
    /\ data = <<Rec(PC_1760005, "b"), Rec(PC_1760006, "a"), Rec(PC_1760005, "a")>>
    /\ Bucket(grouped, PC_1760005) = <<Rec(PC_1760005, "b"), Rec(PC_1760005, "a")>>

C14_PartitionNeverRaises ==
    /\ pc # "raised"
    /\ pc = "grouped" =>
          /\ skipped_count =
                 Cardinality({i \in 1..Len(data) :
                                 \/ data[i].postal_code = NoneCode
                                 \/ Len(data[i].postal_code) # 7})
          /\ \A r \in UncheckedRecords :
                IF r.postal_code # NoneCode /\ Len(r.postal_code) = 7
                THEN Bucket(grouped, r.postal_code) = WithCode(data, r.postal_code)
                ELSE \A i \in 1..Len(grouped) :
                        \A j \in 1..Len(grouped[i].value) :
                            \A k \in 1..Len(grouped[i].value[j].value) :
                                grouped[i].value[j].value[k] # r

-----------------------------------------------------------------------------
(* One format module at work: save_<fmt>(data, datasets_dir / all_data.<ext>) *)
(* and then save_grouped_<fmt>(grouped, datasets_dir).  The write handed to   *)
(* asyncio.to_thread and the resumption of the coroutine that awaits it are   *)
(* one step: no other coroutine reads or writes that file in between.         *)

\* dict update of the file tree and of the write counts
WriteFileMutantAppends(tree, path, content) ==
    IF path \in DOMAIN tree
    THEN (path :> [content EXCEPT !.records = tree[path].records \o @]) @@ tree
    ELSE (path :> content) @@ tree

\* open(path, 'w') and write: the file is made or replaced
WriteFile(tree, path, content) == (path :> content) @@ tree
CountWrite(w, path) ==
    (path :> (IF path \in DOMAIN w THEN w[path] + 1 ELSE 1)) @@ w

LibMissing == fmt \in OptionalFormats /\ ~lib_present

\* save_<fmt> up to `await asyncio.to_thread(...)`
SaveStart ==
    /\ pc = "grouped" /\ call.save = "none"
    /\ IF LibMissing
       THEN \* `if <lib> is None: print(...); return`
            /\ call' = [call EXCEPT !.save = "skipped"]
            /\ UNCHANGED progress
       ELSE /\ progress' = add_task(progress, AllDataTaskName(fmt), 1)
            /\ IF fmt = "csv" /\ data = <<>>
               THEN \* `if not data: print("No data to save"); return`
                    call' = [call EXCEPT !.save = "returned"]
               ELSE call' = [call EXCEPT !.save = "inthread"]
    /\ UNCHANGED <<pc, partVars, fmt, lib_present, tasks, tstate, sem_value,
                   files, dirs, writes, prev, limVars, mainVars, exit_code, readVars>>

\* the write completes, the coroutine advances its progress task and returns
SaveOk ==
    /\ pc = "grouped" /\ call.save = "inthread"
    /\ files' = WriteFile(files, AllDataFile(fmt), ListOf(data))
    /\ writes' = CountWrite(writes, AllDataFile(fmt))
    /\ progress' = AdvanceIfTask(progress, AllDataTaskName(fmt))
    /\ call' = [call EXCEPT !.save = "returned"]
    /\ UNCHANGED <<pc, partVars, fmt, lib_present, tasks, tstate, sem_value,
                   dirs, prev, limVars, mainVars, exit_code, readVars>>

\* the write raises: `except Exception as e: print(...); sys.exit(1)`
SaveRaise ==
    /\ pc = "grouped" /\ call.save = "inthread"
    /\ \E opened \in BOOLEAN :
          files' = IF opened THEN WriteFile(files, AllDataFile(fmt), Truncated)
                   ELSE files
    /\ writes' = CountWrite(writes, AllDataFile(fmt))
    /\ call' = [call EXCEPT !.save = "exited"]
    /\ pc' = "exited"
    /\ exit_code' = 1
    /\ UNCHANGED <<partVars, fmt, lib_present, tasks, tstate, sem_value,
                   dirs, progress, prev, limVars, mainVars, readVars>>

Min(a, b) == IF a < b THEN a ELSE b

AdmitMutantNoLimit(limit, n) == n

\* how many of n coroutines pass `async with semaphore` without waiting
Admitted(limit, n) == Min(limit, n)

\* save_grouped_<fmt> up to `await asyncio.gather(*tasks)`, and the first step
\* of every coroutine of the gather: it takes a slot of the semaphore and hands
\* its write to a thread, or waits for a slot
CallGrouped ==
    /\ pc = "grouped" /\ call.save \in {"returned", "skipped"}
    /\ call.grouped = "none"
    /\ fmt \in GroupedFormats
    /\ IF LibMissing
       THEN \* `if <lib> is None: print(...); return`
            /\ call' = [call EXCEPT !.grouped = "skipped"]
            /\ UNCHANGED <<grouped, tasks, tstate, sem_value, dirs, progress>>
       ELSE /\ progress' = add_task(progress, GroupedTaskName(fmt),
                                    TotalFiles(grouped))
            /\ grouped' = IndexAfterBuild(grouped)
            /\ dirs' = dirs \cup {grouped[i].key : i \in 1..Len(grouped)}
            /\ IF HasEmptyBucket(grouped)
               THEN \* records[0] raises IndexError out of the call
                    /\ call' = [call EXCEPT !.grouped = "raised"]
                    /\ UNCHANGED <<tasks, tstate, sem_value>>
               ELSE LET ts == BuildTasks(fmt, grouped)
                        k == Admitted(Limit(fmt), Len(ts))
                    IN /\ tasks' = ts
                       /\ tstate' = [t \in 1..Len(ts) |->
                                       IF t <= k THEN "inflight" ELSE "waiting"]
                       /\ sem_value' = Limit(fmt) - k
                       /\ call' = [call EXCEPT !.grouped = "running"]
    /\ UNCHANGED <<pc, data, skipped_count, fmt, lib_present, files, writes,
                   prev, limVars, mainVars, exit_code, readVars>>

Waiting(ts) == {t \in DOMAIN ts : ts[t] = "waiting"}
FirstWaiting(ts) == CHOOSE t \in Waiting(ts) : \A u \in Waiting(ts) : t <= u

\* leaving `async with semaphore`: Semaphore.release() hands the slot to the
\* first waiter, or gives it back
TasksAfterRelease(ts, t, outcome) ==
    IF Waiting(ts) = {}
    THEN [ts EXCEPT ![t] = outcome]
    ELSE [ts EXCEPT ![t] = outcome, ![FirstWaiting(ts)] = "inflight"]
ValueAfterRelease(ts, v) == IF Waiting(ts) = {} THEN v + 1 ELSE v

\* save_single_<fmt>_file(t): its write completes, it advances the progress
\* task and leaves the semaphore
FinishOk(t) ==
    /\ pc = "grouped" /\ call.grouped \in {"running", "raised"}
    /\ tstate[t] = "inflight"
    /\ files' = WriteFile(files, tasks[t].path, SavedFile(fmt, tasks[t].payload))
    /\ writes' = CountWrite(writes, tasks[t].path)
    /\ dirs' = dirs \cup (IF tasks[t].path.kind = "suffix"
                          THEN {tasks[t].path.dir} ELSE {})
    /\ progress' = AdvanceIfTask(progress, GroupedTaskName(fmt))
    /\ tstate' = TasksAfterRelease(tstate, t, "done")
    /\ sem_value' = ValueAfterRelease(tstate, sem_value)
    /\ UNCHANGED <<pc, partVars, fmt, lib_present, tasks, call, prev, limVars, mainVars,
                   exit_code, readVars>>

FinishRaiseMutantLeaksSlot(t) ==
    /\ pc = "grouped" /\ call.grouped \in {"running", "raised"}
    /\ tstate[t] = "inflight"
    /\ Cardinality({u \in DOMAIN tstate : tstate[u] = "raised"}) < MaxRaises
    /\ writes' = CountWrite(writes, tasks[t].path)
    /\ tstate' = [tstate EXCEPT ![t] = "raised"]
    /\ call' = [call EXCEPT !.grouped = "raised"]
    /\ UNCHANGED <<pc, partVars, fmt, lib_present, tasks, sem_value, files, dirs,
                   progress, prev, limVars, mainVars, exit_code, readVars>>

\* save_single_<fmt>_file(t): its write raises; it leaves the semaphore and
\* asyncio.gather hands the first such exception to the caller of
\* save_grouped_<fmt>, while the other coroutines go on
FinishRaise(t) ==
    /\ pc = "grouped" /\ call.grouped \in {"running", "raised"}
    /\ tstate[t] = "inflight"
    /\ Cardinality({u \in DOMAIN tstate : tstate[u] = "raised"}) < MaxRaises
    /\ \E opened \in BOOLEAN :
          files' = IF opened THEN WriteFile(files, tasks[t].path, Truncated)
                   ELSE files
    /\ writes' = CountWrite(writes, tasks[t].path)
    /\ tstate' = TasksAfterRelease(tstate, t, "raised")
    /\ sem_value' = ValueAfterRelease(tstate, sem_value)
    /\ call' = [call EXCEPT !.grouped = "raised"]
    /\ UNCHANGED <<pc, partVars, fmt, lib_present, tasks, dirs, progress, prev, limVars,
                   mainVars, exit_code, readVars>>

\* every coroutine of the gather has returned: save_grouped_<fmt> returns
ReturnGrouped ==
    /\ pc = "grouped" /\ call.grouped = "running"
    /\ \A t \in DOMAIN tstate : tstate[t] = "done"
    /\ call' = [call EXCEPT !.grouped = "returned"]
    /\ UNCHANGED <<pc, partVars, fmt, lib_present, tasks, tstate, sem_value,
                   files, dirs, writes, prev, progress, limVars, mainVars, exit_code,
                   readVars>>

InitSink ==
    /\ pc = "start"
    /\ data \in SeqsUpTo(SinkRecords, MaxLen)
    /\ grouped = <<>> /\ skipped_count = 0
    /\ fmt \in Formats
    /\ lib_present \in (IF fmt \in OptionalFormats THEN BOOLEAN ELSE {TRUE})
    /\ tasks = <<>> /\ tstate = <<>> /\ sem_value = 0 /\ call = NoCall
    /\ files = <<>> /\ dirs = {} /\ writes = <<>> /\ prev = NoPrev
    /\ \E simple \in BOOLEAN : progress = NewProgressManager(simple)
    /\ IdleLim /\ IdleMain /\ IdleRead /\ exit_code = 0

NextSink ==
    \/ Group
    \/ SaveStart
    \/ SaveOk
    \/ SaveRaise
    \/ CallGrouped
    \/ \E t \in DOMAIN tstate : FinishOk(t)
    \/ \E t \in DOMAIN tstate : FinishRaise(t)
    \/ ReturnGrouped

SpecSink == InitSink /\ [][NextSink]_vars

\* both calls of the write phase have returned
PhaseDone ==
    /\ call.save \in {"returned", "skipped"}
    /\ call.grouped \in {"returned", "skipped"} \/ fmt \notin GroupedFormats

\* the pipeline is run a second time, by a new process, with the same records
\* and the same destination: the calls start over, the file tree stays
RunAgain ==
    /\ pc = "grouped" /\ prev.run = 1
    /\ PhaseDone
    /\ prev' = [run |-> 2, files |-> files, dirs |-> dirs]
    /\ call' = NoCall
    /\ tasks' = <<>> /\ tstate' = <<>> /\ sem_value' = 0
    /\ writes' = <<>>
    /\ progress' = NewProgressManager(progress.simple_mode)
    /\ UNCHANGED <<pc, partVars, fmt, lib_present, files, dirs, limVars, mainVars,
                   exit_code, readVars>>

\* two runs whose calls return: a write that raises ends its run with
\* sys.exit(1) or with the exception of the gather, and no second run follows
NextTwice ==
    \/ Group
    \/ SaveStart
    \/ SaveOk
    \/ CallGrouped
    \/ \E t \in DOMAIN tstate : FinishOk(t)
    \/ ReturnGrouped
    \/ RunAgain

SpecTwice == InitSink /\ [][NextTwice]_vars

-----------------------------------------------------------------------------
(* One save_grouped_<fmt> call seen as counts of its coroutines: n created,   *)
(* `waiting` suspended in Semaphore.acquire, `holders` inside                 *)
(* `async with semaphore`, `done` returned and `raised` ended by an exception *)

\* `await asyncio.gather(*tasks)`: the first step of each of the n coroutines
LimGather ==
    /\ pc = "start" /\ lim.call = "none"
    /\ LET k == Admitted(Limit(fmt), lim.n)
       IN lim' = [lim EXCEPT !.holders = k, !.waiting = lim.n - k,
                             !.call = "running"]
    /\ pc' = "gather"
    /\ UNCHANGED <<partVars, sinkVars, conc, mainVars, exit_code, readVars>>

LimAfterReleaseMutantNoWakeUp(l) == [l EXCEPT !.holders = @ - 1]

\* Semaphore.release(): the slot goes to the first waiter if there is one
LimAfterRelease(l) ==
    IF l.waiting > 0 THEN [l EXCEPT !.waiting = @ - 1]
    ELSE [l EXCEPT !.holders = @ - 1]

\* a coroutine's write completes and it leaves `async with semaphore`
LimFinishOk ==
    /\ pc = "gather" /\ lim.holders > 0
    /\ lim' = [LimAfterRelease(lim) EXCEPT !.done = @ + 1]
    /\ UNCHANGED <<pc, partVars, sinkVars, conc, mainVars, exit_code, readVars>>

\* a coroutine's write raises: it leaves `async with semaphore` and the
\* gather hands the exception to the caller
LimFinishRaise ==
    /\ pc = "gather" /\ lim.holders > 0
    /\ lim.raised < MaxRaises
    /\ lim' = [LimAfterRelease(lim) EXCEPT !.raised = @ + 1, !.call = "raised"]
    /\ UNCHANGED <<pc, partVars, sinkVars, conc, mainVars, exit_code, readVars>>

\* every coroutine has returned: save_grouped_<fmt> returns
LimReturn ==
    /\ pc = "gather" /\ lim.call = "running" /\ lim.done = lim.n
    /\ lim' = [lim EXCEPT !.call = "returned"]
    /\ pc' = "done"
    /\ UNCHANGED <<partVars, sinkVars, conc, mainVars, exit_code, readVars>>

InitLimiter ==
    /\ pc = "start"
    /\ IdlePart
    /\ fmt \in GroupedFormats /\ lib_present = TRUE
    /\ tasks = <<>> /\ tstate = <<>> /\ sem_value = 0 /\ call = NoCall
    /\ files = <<>> /\ dirs = {} /\ writes = <<>> /\ prev = NoPrev
    /\ progress = NewProgressManager(TRUE)
    /\ \E n \in 0..MaxTasks : lim = [NoLim EXCEPT !.n = n]
    /\ conc = NoConc
    /\ IdleMain /\ IdleRead /\ exit_code = 0

NextLimiter ==
    \/ LimGather
    \/ LimFinishOk
    \/ LimFinishRaise
    \/ LimReturn

SpecLimiter == InitLimiter /\ [][NextLimiter]_vars

\* a call none of whose writes raises
NextLimiterOk ==
    \/ LimGather
    \/ LimFinishOk
    \/ LimReturn

\* the event loop runs every coroutine that is ready, and every write handed
\* to a thread ends
SpecLimiterFair ==
    /\ InitLimiter /\ [][NextLimiterOk]_vars
    /\ WF_vars(LimGather) /\ WF_vars(LimFinishOk) /\ WF_vars(LimReturn)

-----------------------------------------------------------------------------
(* Two save_grouped_<fmt> calls awaited together in one event loop, as counts *)
(* of their coroutines.  Each call has the semaphore it made; every write of  *)
(* either call is handed by asyncio.to_thread to the loop's default executor, *)
(* whose work queue is first in, first out.  A coroutine is `waiting` in       *)
(* Semaphore.acquire, `queued` inside the semaphore with its write in the     *)
(* executor's queue, `running` with its write in a worker thread, or `done`.  *)

ConcFormats == {"parquet", "json"}

NoCount == [n |-> 0, waiting |-> 0, queued |-> 0, running |-> 0, done |-> 0,
            call |-> "none"]

\* worker threads at work
Busy(c) == c.calls["parquet"].running + c.calls["json"].running

\* asyncio.to_thread, k times by coroutines of f: a write starts in a worker
\* thread while one is free, and is queued otherwise
Submit(c, f, k) ==
    LET s == Min(PoolWorkers - Busy(c), k)
    IN [c EXCEPT !.calls[f].running = @ + s,
                 !.calls[f].queued = @ + (k - s),
                 !.queue = @ \o [i \in 1..(k - s) |-> f]]

\* save_grouped_<f> up to its gather and the first step of its coroutines:
\* `semaphore = asyncio.Semaphore(...)` is local to the call
FirstSteps(c, f) ==
    LET k == Admitted(Limit(f), c.calls[f].n)
    IN Submit([c EXCEPT !.calls[f].waiting = c.calls[f].n - k,
                        !.calls[f].call = "running"], f, k)

\* a worker thread that ended a write takes the next write of the queue
HandOver(c) ==
    IF c.queue = <<>> THEN c
    ELSE [c EXCEPT !.queue = Tail(@),
                   !.calls[Head(c.queue)].queued = @ - 1,
                   !.calls[Head(c.queue)].running = @ + 1]

\* asyncio.gather(save_grouped_<first>(...), save_grouped_<second>(...))
ConcGather ==
    /\ pc = "start"
    /\ \E first \in ConcFormats :
          conc' = FirstSteps(FirstSteps(conc, first),
                             CHOOSE g \in ConcFormats : g # first)
    /\ pc' = "conc"
    /\ UNCHANGED <<partVars, sinkVars, lim, mainVars, exit_code, readVars>>

\* a write of f ends in its thread: the thread goes on with the queue, the
\* coroutine leaves `async with semaphore`, and the coroutine of f woken by
\* the release hands its write to the executor
ConcFinish(f) ==
    /\ pc = "conc" /\ conc.calls[f].running > 0
    /\ f \notin conc.blocked
    /\ LET c1 == HandOver([conc EXCEPT !.calls[f].running = @ - 1,
                                       !.calls[f].done = @ + 1])
       IN conc' = IF c1.calls[f].waiting > 0
                  THEN Submit([c1 EXCEPT !.calls[f].waiting = @ - 1], f, 1)
                  ELSE c1
    /\ UNCHANGED <<pc, partVars, sinkVars, lim, mainVars, exit_code, readVars>>

\* every coroutine of save_grouped_<f> has returned: the call returns
ConcReturn(f) ==
    /\ pc = "conc" /\ conc.calls[f].call = "running"
    /\ conc.calls[f].done = conc.calls[f].n
    /\ conc' = [conc EXCEPT !.calls[f].call = "returned"]
    /\ UNCHANGED <<pc, partVars, sinkVars, lim, mainVars, exit_code, readVars>>

\* the number of files of each call, and the format, if any, whose writes
\* never end (a stalled disk or mount under its files)
InitConcurrent ==
    /\ pc = "start"
    /\ IdlePart /\ IdleSink /\ lim = NoLim /\ IdleMain /\ IdleRead
    /\ exit_code = 0
    /\ \E np \in {1, PoolWorkers, ParquetLimit + 1},
          nj \in {1, PoolWorkers, DefaultLimit + 1},
          b \in {{}, {"parquet"}, {"json"}} :
          conc = [blocked |-> b, queue |-> <<>>,
                  calls |-> [f \in ConcFormats |->
                      [NoCount EXCEPT !.n = IF f = "parquet" THEN np ELSE nj]]]

NextConcurrent ==
    \/ ConcGather
    \/ \E f \in ConcFormats : ConcFinish(f)
    \/ \E f \in ConcFormats : ConcReturn(f)

SpecConcurrent == InitConcurrent /\ [][NextConcurrent]_vars

\* the event loop runs what is ready, and a write that is not stalled ends
SpecConcurrentFair ==
    /\ SpecConcurrent
    /\ WF_vars(ConcGather)
    /\ \A f \in ConcFormats : WF_vars(ConcFinish(f)) /\ WF_vars(ConcReturn(f))

\* C21 (as claimed): each save_grouped_<fmt> call has its own semaphore, so
\* a format whose writes are all stalled cannot keep another format from
\* completing: every call whose own writes end does return.
C21_OtherFormatCompletes ==
    \A f \in ConcFormats :
        (pc = "start" /\ f \notin conc.blocked)
            => <>(conc.calls[f].call = "returned")

-----------------------------------------------------------------------------
(* models.py: construction of a JapanPostalCode from the fields of one row *)

\* a field value handed to the constructor: a str, or None
None == [is_none |-> TRUE, v |-> <<>>]
Str(v) == [is_none |-> FALSE, v |-> v]

Whitespace == {" "}
RECURSIVE lstrip(_)
lstrip(v) == IF v # <<>> /\ Head(v) \in Whitespace THEN lstrip(Tail(v)) ELSE v
RECURSIVE rstrip(_)
rstrip(v) ==
    IF v # <<>> /\ v[Len(v)] \in Whitespace
    THEN rstrip(SubSeq(v, 1, Len(v) - 1))
    ELSE v
\* str.strip()
strip(v) == rstrip(lstrip(v))

AsciiDigits == {"0", "1", "2", "3", "4", "5", "6", "7", "8", "9"}
\* characters outside ASCII that str.isdigit() accepts, by code point
UnicodeDigits == {"U+0663"}
\* str.isdigit(): non-empty and every character a digit
isdigit(v) ==
    /\ v # <<>>
    /\ \A i \in 1..Len(v) : v[i] \in AsciiDigits \cup UnicodeDigits

Accepted(value) == [ok |-> TRUE, value |-> value]
Rejected == [ok |-> FALSE, value |-> None]

\* JapanPostalCode.validate_postal_code
validate_postal_code(v) ==
    IF v.is_none THEN Rejected
    ELSE LET t == strip(v.v)
         IN IF Len(t) # 7 \/ ~isdigit(t) THEN Rejected ELSE Accepted(Str(t))

\* JapanPostalCode.validate_old_postal_code
validate_old_postal_code(v) ==
    IF v.is_none THEN Accepted(None)
    ELSE LET t == strip(v.v)
         IN IF t = <<>> THEN Accepted(None)
            ELSE IF Len(t) \notin {3, 5} \/ ~isdigit(t) THEN Rejected
            ELSE Accepted(Str(t))

\* a field annotated `str`: a value supplied as None fails the type check,
\* which runs before the field's validator
StrTypeOk(v) == ~v.is_none

\* JapanPostalCode(old_postal_code=..., postal_code=..., town_name=...): the
\* record, or a ValidationError
JapanPostalCode(old_postal_code, postal_code, town_name) ==
    IF /\ StrTypeOk(old_postal_code) /\ validate_old_postal_code(old_postal_code).ok
       /\ StrTypeOk(postal_code) /\ validate_postal_code(postal_code).ok
    THEN Accepted(Rec(validate_postal_code(postal_code).value.v, town_name))
    ELSE Rejected

-----------------------------------------------------------------------------
(* models.py: one construction JapanPostalCode(old_postal_code=...,           *)
(* postal_code=..., town_name=...) over supplied field values                 *)

\* the characters of the supplied strings: an ASCII digit, ARABIC-INDIC DIGIT
\* THREE, a letter and a space
FieldChars == {"1", "U+0663", "a", " "}
Strings(n) == SeqsUpTo(FieldChars, n)

\* the keyword arguments of one constructor call
Supplied(old, code, town) ==
    [old_postal_code |-> old, postal_code |-> code, town_name |-> town]

\* the field values of the instance the constructor returns
ModelFields(old_postal_code, postal_code, town_name) ==
    [old_postal_code |-> validate_old_postal_code(old_postal_code).value,
     postal_code |-> validate_postal_code(postal_code).value,
     town_name |-> town_name]

\* the constructor is called once on the supplied values
Construct ==
    /\ pc = "model" /\ rd.path = "none"
    /\ LET row == rows[1]
           built == JapanPostalCode(row.old_postal_code, row.postal_code,
                                    row.town_name)
       IN rd' = IF built.ok
                THEN [rd EXCEPT !.path = "constructed", !.i = 1,
                                !.data = <<ModelFields(row.old_postal_code,
                                                       row.postal_code,
                                                       row.town_name)>>]
                ELSE [rd EXCEPT !.path = "rejected", !.i = 1, !.errors = <<1>>]
    /\ pc' = "constructed"
    /\ UNCHANGED <<partVars, sinkVars, limVars, mainVars, exit_code, rows>>

\* the supplied values: any postal_code string with a well-formed old code, or
\* any old_postal_code string, or None, with a well-formed postal code
InitModel ==
    /\ pc = "model"
    /\ IdlePart /\ IdleSink /\ IdleLim /\ IdleMain /\ exit_code = 0
    /\ rd = NoRead
    /\ \/ \E v \in Strings(MaxCodeLen) :
             rows = <<Supplied(Str(<<"1", "7", "6">>), Str(v), "a")>>
       \/ \E v \in Strings(MaxOldLen) :
             rows = <<Supplied(Str(v), Str(PC_1760005), "a")>>
       \/ rows = <<Supplied(None, Str(PC_1760005), "a")>>

NextModel == Construct

SpecModel == InitModel /\ [][NextModel]_vars

(* Properties of the construction *)

SevenAsciiDigits(code) ==
    Len(code) = 7 /\ \A i \in 1..7 : code[i] \in AsciiDigits

\* C12 (as claimed): an accepted record's postal_code is exactly 7 ASCII
\* digits, the supplied string trimmed; every other supplied string, a
\* non-ASCII digit in it included, makes the construction fail
C12_SevenAsciiDigitsOnly ==
    rd.path \in {"constructed", "rejected"} =>
        LET supplied == rows[1].postal_code
            r == validate_postal_code(supplied)
        IN /\ IF SevenAsciiDigits(strip(supplied.v))
              THEN r = Accepted(Str(strip(supplied.v)))
              ELSE ~r.ok
           /\ rd.path = "constructed" =>
                 SevenAsciiDigits(rd.data[1].postal_code.v)

AllAsciiDigits(v) == \A i \in 1..Len(v) : v[i] \in AsciiDigits

\* C13 (as claimed): validate_old_postal_code maps an absent, empty or
\* whitespace-only input to None, returns the trimmed value when it is exactly
\* 3 or exactly 5 digits and fails for every other input, so a constructed
\* record's old_postal_code is absent or 3 or 5 digits
C13_OldCodeAbsentOrDigits ==
    rd.path \in {"constructed", "rejected"} =>
        LET v == rows[1].old_postal_code
            r == validate_old_postal_code(v)
            t == strip(v.v)
        IN /\ IF v.is_none \/ t = <<>> THEN r = Accepted(None)
              ELSE IF Len(t) \in {3, 5} /\ AllAsciiDigits(t)
              THEN r = Accepted(Str(t))
              ELSE ~r.ok
           /\ rd.path = "constructed" =>
                 \/ rd.data[1].old_postal_code = None
                 \/ /\ Len(rd.data[1].old_postal_code.v) \in {3, 5}
                    /\ AllAsciiDigits(rd.data[1].old_postal_code.v)

-----------------------------------------------------------------------------
(* scripts/utils.py: read_csv_data and its fallback _read_csv_data_slow *)

RawRow(old, code, town) ==
    [old_postal_code |-> old, postal_code |-> code, town_name |-> town]

OLD_176 == <<"1", "7", "6", " ", " ">>
OLD_100 == <<"1", "0", "0">>
PC_1760005_padded == <<" ", "1", "7", "6", "0", "0", "0", "5">>
PC_176000a == <<"1", "7", "6", "0", "0", "0", "a">>

\* rows of the CSV file: well-formed ones, one with a padded postal code, and
\* ones with a short, a non-digit or an empty postal code or an empty old code
RawRows == {RawRow(OLD_176, PC_1760005, "a"),
            RawRow(OLD_100, PC_1000001, "a"),
            RawRow(OLD_176, PC_1760005_padded, "b"),
            RawRow(OLD_176, PC_123, "a"),
            RawRow(OLD_176, PC_176000a, "a"),
            RawRow(OLD_176, <<>>, "a"),
            RawRow(<<>>, PC_1760006, "a")}

\* `row.x.strip() if row.x else None`
StripOrNone(v) == IF v # <<>> THEN Str(strip(v)) ELSE None

\* the constructor call of the loop body
ParseRow(row) ==
    JapanPostalCode(StripOrNone(row.old_postal_code),
                    StripOrNone(row.postal_code), row.town_name)

ReadStepMutantSilentError(r, row) ==
    LET parsed == ParseRow(row)
    IN IF parsed.ok
       THEN [r EXCEPT !.i = @ + 1, !.data = Append(@, parsed.value)]
       ELSE [r EXCEPT !.i = @ + 1]

\* one turn of `for row in iterator:`: data.append(postal_code), or
\* errors.append(...) and continue
ReadStep(r, row) ==
    LET parsed == ParseRow(row)
    IN IF parsed.ok
       THEN [r EXCEPT !.i = @ + 1, !.data = Append(@, parsed.value)]
       ELSE [r EXCEPT !.i = @ + 1,
                      !.errors = Append(@, IF r.path = "slow" THEN r.i + 1 ELSE 0)]

\* read_csv_data up to the loop: pandas when it is there and reads the file,
\* else _read_csv_data_slow, which exits when it cannot open the file
ReadStart ==
    /\ pc = "read" /\ rd.path = "none"
    /\ \E raises \in BOOLEAN, opens \in BOOLEAN :
          IF rd.pd /\ ~raises
          THEN /\ opens
               /\ rd' = [rd EXCEPT !.path = "pandas"]
               /\ progress' = add_task(progress, "Reading CSV", Len(rows))
               /\ UNCHANGED <<pc, exit_code>>
          ELSE IF opens
          THEN /\ rd' = [rd EXCEPT !.path = "slow"]
               /\ progress' = add_task(progress, "Reading CSV", Len(rows))
               /\ UNCHANGED <<pc, exit_code>>
          ELSE \* `except Exception: ...; sys.exit(1)`
               /\ rd' = [rd EXCEPT !.path = "failed"]
               /\ pc' = "exited"
               /\ exit_code' = 1
               /\ UNCHANGED progress
    /\ UNCHANGED <<partVars, fmt, lib_present, tasks, tstate, sem_value, call,
                   files, dirs, writes, prev, limVars, mainVars, rows>>

\* the loop body for the next row
ReadRow ==
    /\ pc = "read" /\ rd.path \in {"pandas", "slow"}
    /\ rd.i < Len(rows)
    /\ rd' = ReadStep(rd, rows[rd.i + 1])
    /\ progress' = AdvanceIfTask(progress, "Reading CSV")
    /\ UNCHANGED <<pc, partVars, fmt, lib_present, tasks, tstate, sem_value,
                   call, files, dirs, writes, prev, limVars, mainVars, exit_code, rows>>

\* an exception leaves the pandas loop (the handler of a row raising again,
\* e.g. on MemoryError): `except Exception: ...; return
\* _read_csv_data_slow(csv_path)` reads the file anew with its own lists and
\* adds the task "Reading CSV" again
ReadFallback ==
    /\ pc = "read" /\ rd.path = "pandas"
    /\ \E opens \in BOOLEAN :
          IF opens
          THEN /\ rd' = [rd EXCEPT !.path = "slow", !.fallback_at = rd.i,
                                   !.i = 0, !.data = <<>>, !.errors = <<>>]
               /\ progress' = add_task(progress, "Reading CSV", Len(rows))
               /\ UNCHANGED <<pc, exit_code>>
          ELSE /\ rd' = [rd EXCEPT !.path = "failed", !.fallback_at = rd.i]
               /\ pc' = "exited"
               /\ exit_code' = 1
               /\ UNCHANGED progress
    /\ UNCHANGED <<partVars, fmt, lib_present, tasks, tstate, sem_value, call,
                   files, dirs, writes, prev, limVars, mainVars, rows>>

\* `return data`
ReadReturn ==
    /\ pc = "read" /\ rd.path \in {"pandas", "slow"}
    /\ rd.i = Len(rows)
    /\ rd' = [rd EXCEPT !.path = "returned"]
    /\ data' = rd.data
    /\ pc' = "read_done"
    /\ UNCHANGED <<grouped, skipped_count, sinkVars, limVars, mainVars, exit_code,
                   rows>>

InitRead ==
    /\ pc = "read"
    /\ IdlePart /\ IdleLim /\ IdleMain
    /\ fmt = "json" /\ lib_present = TRUE
    /\ tasks = <<>> /\ tstate = <<>> /\ sem_value = 0 /\ call = NoCall
    /\ files = <<>> /\ dirs = {} /\ writes = <<>> /\ prev = NoPrev
    /\ \E simple \in BOOLEAN : progress = NewProgressManager(simple)
    /\ exit_code = 0
    /\ rows \in SeqsUpTo(RawRows, MaxRows)
    /\ \E pandas \in BOOLEAN : rd = [NoRead EXCEPT !.pd = pandas]

NextRead == ReadStart \/ ReadRow \/ ReadFallback \/ ReadReturn

SpecRead == InitRead /\ [][NextRead]_vars

(* Properties of the reader *)

Passes(row) == ParseRow(row).ok
Converted(rs) == [k \in 1..Len(rs) |-> ParseRow(rs[k]).value]
SevenDigits(code) ==
    Len(code) = 7 /\ \A i \in 1..7 : code[i] \in AsciiDigits \cup UnicodeDigits

C20_CompletedNeverDecreases ==
    [][progress.simple_mode =>
          \A k \in 1..Len(progress.task_status) :
              LET name == progress.task_status[k].key
              IN /\ HasKey(progress'.task_status, name)
                 /\ Get(progress'.task_status, name).completed
                        >= progress.task_status[k].value.completed]_vars

\* C20 witness: in simple mode the pandas loop was left after two rows, the
\* fallback added "Reading CSV" again and has read all three rows.
C20_Witness ==
    /\ progress.simple_mode
    /\ rd.fallback_at = 2 /\ rd.path = "returned" /\ Len(rows) = 3
    /\ HasKey(progress.task_status, "Reading CSV")
    /\ Get(progress.task_status, "Reading CSV").total = 3

-----------------------------------------------------------------------------
(* scripts/formats/*.py: what save_<fmt> stores for each field of a record.   *)
(* A record is here its model_dump(): a value, None or a string, per field.   *)

\* what a file holds for one field: the format's null, or a text
NullCell == [kind |-> "null", text |-> <<>>]
TextCell(v) == [kind |-> "text", text |-> v]
\* the encoder does not accept the value and raises
NoCell == [kind |-> "raise", text |-> <<>>]

\* str(None)
NoneText == <<"N", "o", "n", "e">>

\* the cell save_<f> writes for the field value v
EncodeField(f, v) ==
    CASE f = "sqlite" ->
            \* values = [str(record.get(field, '')) for field in fieldnames]
            TextCell(IF v.is_none THEN NoneText ELSE v.v)
      [] f = "xml" ->
            \* field_elem.text = str(value) if value else ''
            TextCell(IF v.is_none \/ v.v = <<>> THEN <<>> ELSE v.v)
      [] f = "csv" ->
            \* csv.DictWriter writes None as the empty string
            TextCell(IF v.is_none THEN <<>> ELSE v.v)
      [] f = "toml" ->
            \* tomli_w.dump has no encoding of None and raises TypeError
            IF v.is_none THEN NoCell ELSE TextCell(v.v)
      [] OTHER ->
            \* json, ndjson, msgpack, bson, parquet have a null
            IF v.is_none THEN NullCell ELSE TextCell(v.v)

FieldNames == {"old_postal_code", "postal_code", "town_name"}
EncodeRecord(f, record) == [k \in FieldNames |-> EncodeField(f, record[k])]

PC_0600000 == <<"0", "6", "0", "0", "0", "0", "0">>
OLD_060 == <<"0", "6", "0">>

\* the values a field of a constructed record can hold
FieldValues(k) ==
    CASE k = "old_postal_code" -> {None, Str(OLD_060)}
      [] k = "postal_code" -> {Str(PC_0600000), Str(PC_1760005)}
      [] k = "town_name" -> {None, Str(<<>>), Str(NoneText), Str(<<"a">>)}

\* save_<fmt>([record], all_data.<ext>): the file written, or sys.exit(1)
\* behind the file the failed write left
SaveRecord ==
    /\ pc = "encode"
    /\ LET cells == EncodeRecord(fmt, rows[1])
       IN IF \E k \in FieldNames : cells[k] = NoCell
          THEN /\ files' = WriteFile(files, AllDataFile(fmt), Truncated)
               /\ pc' = "exited"
               /\ exit_code' = 1
          ELSE /\ files' = WriteFile(files, AllDataFile(fmt),
                                     [shape |-> "cells", records |-> <<cells>>])
               /\ pc' = "encoded"
               /\ UNCHANGED exit_code
    /\ UNCHANGED <<partVars, fmt, lib_present, tasks, tstate, sem_value, call,
                   dirs, writes, prev, progress, limVars, mainVars, readVars>>

InitEncode ==
    /\ pc = "encode"
    /\ IdlePart /\ IdleLim /\ IdleMain /\ exit_code = 0
    /\ fmt \in Formats /\ lib_present = TRUE
    /\ tasks = <<>> /\ tstate = <<>> /\ sem_value = 0 /\ call = NoCall
    /\ files = <<>> /\ dirs = {} /\ writes = <<>> /\ prev = NoPrev
    /\ progress = NewProgressManager(TRUE)
    /\ rd = NoRead
    /\ \E old \in FieldValues("old_postal_code"),
          code \in FieldValues("postal_code"),
          town \in FieldValues("town_name") :
          rows = <<Supplied(old, code, town)>>

NextEncode == SaveRecord

SpecEncode == InitEncode /\ [][NextEncode]_vars

(* Properties of the encoding *)

\* C15 (as claimed): every sink stores every field of every record so that
\* decoding gives the original back: a string is stored as that text, leading
\* zeros kept, and an absent value is stored as something no string of the
\* field is stored as, never as the text "None"; no record stops the write
C15_RoundTripEveryField ==
    /\ pc # "exited"
    /\ pc = "encoded" =>
          \A k \in FieldNames :
              LET v == rows[1][k]
                  cell == files[AllDataFile(fmt)].records[1][k]
              IN /\ ~v.is_none => cell = TextCell(v.v)
                 /\ v.is_none => cell # TextCell(NoneText)
                 /\ \A w \in FieldValues(k) \ {v} : EncodeField(fmt, w) # cell

-----------------------------------------------------------------------------
(* scripts/main.py: main() gathers one save_<fmt>(data, all_data.<ext>) per   *)
(* format.  The first steps of the eleven coroutines run in the order of the  *)
(* gather, each up to its `await asyncio.to_thread(...)`; the writes then     *)
(* complete in any order.                                                     *)

\* the arguments of asyncio.gather, in order
MainFormats == <<"json", "yaml", "csv", "xml", "parquet", "msgpack", "ndjson",
                 "toml", "feather", "bson", "sqlite">>
MainFormatSet == {MainFormats[i] : i \in 1..Len(MainFormats)}

\* the imports wrapped in try/except ImportError
OptionalLibs == {"pyarrow", "msgpack", "tomli_w", "bson"}
LibOf(f) ==
    CASE f \in {"parquet", "feather"} -> "pyarrow"
      [] f = "msgpack" -> "msgpack"
      [] f = "toml" -> "tomli_w"
      [] f = "bson" -> "bson"
      [] OTHER -> "builtin"

MainLibMissingMutantNoGuard(f) == FALSE

\* `if pq is None:` and its like at the head of save_<fmt>
MainLibMissing(f) == LibOf(f) \in missing

\* the value of main.read_csv_data: a list, or None
NoneData == [is_none |-> TRUE, items |-> <<>>]
ListData(items) == [is_none |-> FALSE, items |-> items]

\* save_ndjson and save_sqlite iterate over data inside the thread; the
\* others do so before the await, and save_csv first tests `if not data`
IteratesBeforeThread(f) == f \notin {"ndjson", "sqlite", "csv"}

\* the file of a write whose thread was alive when the interpreter left the
\* event loop: the thread may complete the write while the executor is shut
\* down, or its work item may be dropped unstarted
MaybeWritten == [shape |-> "maybe", records |-> <<>>]

Started(f) == msink[f] # "pending"
FirstPending ==
    MainFormats[CHOOSE i \in 1..Len(MainFormats) :
                    /\ msink[MainFormats[i]] = "pending"
                    /\ \A j \in 1..(i - 1) : Started(MainFormats[j])]

\* sys.exit(1) inside save_<f>: SystemExit leaves the event loop, asyncio.run
\* cancels every coroutine that has not returned, and the process exits 1
SinksAfterExit(f) ==
    [g \in MainFormatSet |->
        IF g = f THEN "failed"
        ELSE IF msink[g] \in {"pending", "inthread"} THEN "cancelled"
        ELSE msink[g]]
FilesAfterExit(f, tree) ==
    [g \in DOMAIN tree \cup {h \in MainFormatSet \ {f} : msink[h] = "inthread"} |->
        IF g # f /\ msink[g] = "inthread" THEN MaybeWritten ELSE tree[g]]

\* the first step of the next coroutine of the gather
MainStart ==
    /\ pc = "main_gather"
    /\ \E g \in MainFormatSet : msink[g] = "pending"
    /\ LET f == FirstPending
       IN IF MainLibMissing(f)
          THEN \* print(...); return
               /\ msink' = [msink EXCEPT ![f] = "skipped"]
               /\ UNCHANGED <<pc, mfiles, exit_code>>
          ELSE IF f = "csv" /\ (mdata.is_none \/ mdata.items = <<>>)
          THEN \* `if not data: print("No data to save"); return`
               /\ msink' = [msink EXCEPT ![f] = "nodata"]
               /\ UNCHANGED <<pc, mfiles, exit_code>>
          ELSE IF mdata.is_none /\ IteratesBeforeThread(f)
          THEN \* iterating over None raises TypeError: sys.exit(1)
               /\ msink' = SinksAfterExit(f)
               /\ mfiles' = FilesAfterExit(f, mfiles)
               /\ pc' = "main_exited"
               /\ exit_code' = 1
          ELSE /\ msink' = [msink EXCEPT ![f] = "inthread"]
               /\ UNCHANGED <<pc, mfiles, exit_code>>
    /\ UNCHANGED <<partVars, sinkVars, limVars, mdata, missing, readVars>>

AllStarted == \A g \in MainFormatSet : Started(g)

\* the write of save_<f> completes and the coroutine returns
MainWriteOk(f) ==
    /\ pc = "main_gather" /\ AllStarted
    /\ msink[f] = "inthread" /\ ~mdata.is_none
    /\ msink' = [msink EXCEPT ![f] = "completed"]
    /\ mfiles' = WriteFile(mfiles, f, ListOf(mdata.items))
    /\ UNCHANGED <<pc, partVars, sinkVars, limVars, mdata, missing, exit_code,
                   readVars>>

\* the write of save_<f> raises: `except Exception: ...; sys.exit(1)`
MainWriteRaise(f) ==
    /\ pc = "main_gather" /\ AllStarted
    /\ msink[f] = "inthread"
    /\ msink' = SinksAfterExit(f)
    /\ \E opened \in BOOLEAN :
          mfiles' = FilesAfterExit(f, IF opened /\ ~mdata.is_none
                                      THEN WriteFile(mfiles, f, Truncated)
                                      ELSE mfiles)
    /\ pc' = "main_exited"
    /\ exit_code' = 1
    /\ UNCHANGED <<partVars, sinkVars, limVars, mdata, missing, readVars>>

\* every coroutine has returned: main prints the summary and returns
MainReturn ==
    /\ pc = "main_gather"
    /\ \A g \in MainFormatSet : msink[g] \in {"completed", "skipped", "nodata"}
    /\ pc' = "main_exited"
    /\ exit_code' = 0
    /\ UNCHANGED <<partVars, sinkVars, limVars, mainVars, readVars>>

MainInputs == {NoneData, ListData(<<>>), ListData(Scenario3)}

InitMain ==
    /\ pc = "main_gather"
    /\ IdlePart /\ IdleSink /\ IdleLim /\ IdleRead
    /\ mdata \in MainInputs
    /\ msink = [g \in MainFormatSet |-> "pending"]
    /\ missing \in {m \in SUBSET OptionalLibs : Cardinality(m) <= MaxMissing}
    /\ mfiles = <<>>
    /\ exit_code = 0

NextMain ==
    \/ MainStart
    \/ \E f \in MainFormatSet : MainWriteOk(f)
    \/ \E f \in MainFormatSet : MainWriteRaise(f)
    \/ MainReturn

SpecMain == InitMain /\ [][NextMain]_vars

\* the runs in which an optional library failed to import: main.main with a
\* library missing, or one formats/<fmt>_format.py module without its library
InitMissingLib ==
    \/ InitMain /\ missing # {}
    \/ InitSink /\ LibMissing

NextMissingLib ==
    \/ NextMain
    \/ Group
    \/ SaveStart
    \/ CallGrouped

SpecMissingLib == InitMissingLib /\ [][NextMissingLib]_vars

(* Properties of the whole-dataset fan-out *)

Complete(f) == f \in DOMAIN mfiles /\ mfiles[f] = ListOf(mdata.items)

\* C3: when the write of one sink of main.main fails, every other sink whose
\* library is there still runs to completion and leaves its complete all_data
\* file
C3_FailureIsolated ==
    \A f \in DOMAIN msink :
        msink[f] = "failed" =>
            \A g \in DOMAIN msink \ {f} :
                LibOf(g) \notin missing =>
                    \/ msink[g] = "completed" /\ Complete(g)
                    \/ msink[g] = "nodata"

\* C5: a format whose optional library is absent returns from save and from
\* save_grouped without writing a file and without raising; when no write
\* fails, every other format's all_data file is produced and the run ends with
\* exit code 0
C5_MissingLibrarySkipped ==
    /\ msink = <<>> /\ fmt \in OptionalFormats /\ ~lib_present =>
          /\ files = <<>> /\ dirs = {}
          /\ call.save \in {"none", "skipped"}
          /\ call.grouped \in {"none", "skipped"}
          /\ pc # "exited"
    /\ \A f \in DOMAIN msink :
          LibOf(f) \in missing =>
              /\ f \notin DOMAIN mfiles
              /\ msink[f] \in {"pending", "skipped", "cancelled"}
    /\ (pc = "main_exited" /\ \A f \in DOMAIN msink : msink[f] # "failed") =>
          /\ exit_code = 0
          /\ \A g \in DOMAIN msink :
                IF LibOf(g) \in missing THEN msink[g] = "skipped"
                ELSE \/ msink[g] = "completed" /\ Complete(g)
                     \/ g = "csv" /\ mdata.items = <<>> /\ msink[g] = "nodata"

\* pyarrow absent: parquet and feather skipped, the other nine files written
C5_Witness ==
    /\ pc = "main_exited" /\ exit_code = 0
    /\ missing = {"pyarrow"}
    /\ mdata = ListData(Scenario3)
    /\ msink["parquet"] = "skipped" /\ msink["feather"] = "skipped"
    /\ DOMAIN mfiles = MainFormatSet \ {"parquet", "feather"}

-----------------------------------------------------------------------------
(* scripts/main.py: main() from read_csv_data to the end of the gather *)

\* the constructor call of main.read_csv_data: every field is `row[k].strip()`
MainParseRow(row) ==
    JapanPostalCode(Str(strip(row.old_postal_code)),
                    Str(strip(row.postal_code)), row.town_name)

\* the loop of main.read_csv_data over rs[i..]: data.append(postal_code), or
\* errors.append(f"Error parsing row {row_num}: {e}") and continue
RECURSIVE MainReadLoop(_, _, _)
MainReadLoop(st, rs, i) ==
    IF i > Len(rs) THEN st
    ELSE LET parsed == MainParseRow(rs[i])
         IN MainReadLoop(IF parsed.ok
                         THEN [st EXCEPT !.data = Append(@, parsed.value)]
                         ELSE [st EXCEPT !.errors = Append(@, i)],
                         rs, i + 1)

\* `if len(errors) > 0: logger.error(...)` and the function ends without a
\* return statement, `else: return data`
MainReadResult(st) == IF Len(st.errors) > 0 THEN NoneData ELSE ListData(st.data)

\* main.read_csv_data(csv_path): what it collected and the value it returns
main_read_csv_data(rs) ==
    LET st == MainReadLoop([data |-> <<>>, errors |-> <<>>], rs, 1)
    IN [data |-> st.data, errors |-> st.errors, result |-> MainReadResult(st)]

\* data = read_csv_data(csv_path), or sys.exit(1) when the file cannot be read
MainReadCsv ==
    /\ pc = "main_read"
    /\ \E opens \in BOOLEAN :
          IF opens
          THEN LET r == main_read_csv_data(rows)
               IN /\ rd' = [rd EXCEPT !.path = "main", !.i = Len(rows),
                                      !.data = r.data, !.errors = r.errors]
                  /\ mdata' = r.result
                  /\ pc' = "main_gather"
                  /\ UNCHANGED exit_code
          ELSE /\ rd' = [rd EXCEPT !.path = "failed"]
               /\ pc' = "main_exited"
               /\ exit_code' = 1
               /\ UNCHANGED mdata
    /\ UNCHANGED <<partVars, sinkVars, limVars, msink, missing, mfiles, rows>>

\* rows of the file main.main reads: a well-formed one and one whose
\* postal_code is short
MainRows == {RawRow(OLD_176, PC_1760005, "a"), RawRow(OLD_176, PC_123, "a")}

InitPipeline ==
    /\ pc = "main_read"
    /\ IdlePart /\ IdleSink /\ IdleLim
    /\ rows \in SeqsUpTo(MainRows, MaxMainRows)
    /\ rd = NoRead
    /\ mdata = ListData(<<>>)
    /\ msink = [g \in MainFormatSet |-> "pending"]
    /\ missing \in {m \in SUBSET OptionalLibs : Cardinality(m) <= MaxMissing}
    /\ mfiles = <<>>
    /\ exit_code = 0

NextPipeline ==
    \/ MainReadCsv
    \/ NextMain

SpecPipeline == InitPipeline /\ [][NextPipeline]_vars

(* Properties of a run of main.main *)

MainValid(rs) == SelectSeq(rs, LAMBDA row : MainParseRow(row).ok)
MainConverted(rs) == [k \in 1..Len(rs) |-> MainParseRow(rs[k]).value]
HasMalformedRow == \E i \in 1..Len(rows) : ~MainParseRow(rows[i]).ok

\* C11 (as claimed): when the input has a malformed row among valid rows, the
\* row is recorded and dropped, main.read_csv_data hands the list of the valid
\* rows to the sinks and the run is not aborted by the per-row error: a sink
\* fails only in its write, after every sink has started
C11_BatchContinues ==
    (pc \in {"main_gather", "main_exited"} /\ rd.path = "main" /\ HasMalformedRow) =>
        /\ Len(rd.errors) > 0
        /\ mdata = ListData(MainConverted(MainValid(rows)))
        /\ exit_code = 1 => AllStarted

\* C18 (as claimed): a run of main.main that ends normally has built the
\* partitioned index of the records read and has driven, for every sink whose
\* library is there, one grouped write against it: the prefix and suffix
\* files of that format are in the destination tree
C18_GroupedWriteDriven ==
    (pc = "main_exited" /\ exit_code = 0 /\ mdata.items # <<>>) =>
        /\ grouped = group_by_postal_code_prefix(mdata.items).grouped
        /\ \A f \in MainFormatSet :
              LibOf(f) \notin missing =>
                  \E p \in DOMAIN files : p.kind # "all" /\ p.ext = f

-----------------------------------------------------------------------------
(* One run over all formats: the format modules in the order of main.main's  *)
(* gather, each with its save_<fmt> and save_grouped_<fmt>, into one          *)
(* destination.  The writes of one format interleave; a format's calls have   *)
(* returned when the next format starts.                                      *)

FormatOrder == SelectSeq(MainFormats, LAMBDA f : f \in Formats)

\* the run goes on to the next format module
NextFormat ==
    /\ pc = "grouped" /\ PhaseDone
    /\ \E k \in 1..(Len(FormatOrder) - 1) :
          fmt = FormatOrder[k] /\ fmt' = FormatOrder[k + 1]
    /\ call' = NoCall
    /\ tasks' = <<>> /\ tstate' = <<>> /\ sem_value' = 0
    /\ UNCHANGED <<pc, partVars, lib_present, files, dirs, writes, prev,
                   progress, limVars, mainVars, exit_code, readVars>>

InitRun == InitSink /\ fmt = FormatOrder[1]

NextRun ==
    \/ Group
    \/ SaveStart
    \/ SaveOk
    \/ CallGrouped
    \/ \E t \in DOMAIN tstate : FinishOk(t)
    \/ ReturnGrouped
    \/ NextFormat

SpecRun == InitRun /\ [][NextRun]_vars

-----------------------------------------------------------------------------
(* Properties of the grouped sinks *)

\* C2: at every moment of a save_grouped_<fmt> call the number of write
\* coroutines inside the semaphore is at most the format's limit (100, and
\* 50 for Parquet), however many coroutines the call created.
C2_HoldersWithinLimit == lim.holders <= Limit(fmt)

\* C2 witness: a JSON call with more than 100 coroutines has all 100 slots
\* taken, coroutines waiting, and writes already completed.
C2_Witness ==
    /\ fmt = "json" /\ lim.call = "running"
    /\ lim.holders = DefaultLimit /\ lim.waiting > 0 /\ lim.done > 0


\* C4 (as claimed): an error raised by a file write inside save_grouped_<fmt>
\* is caught at the sink boundary; the call never ends by raising to its caller.
C4_GroupedNeverRaises == call.grouped # "raised"

\* C16: when the write phase is run twice with the same records and the same
\* destination and both runs return, the file tree after the second run (its
\* paths, directories and the content of each file) is the tree after the
\* first, in whatever order the writes of either run complete.
C16_SecondRunSameTree ==
    (prev.run = 2 /\ PhaseDone) => files = prev.files /\ dirs = prev.dirs

\* C16 witness: the second run over the three records of the scenario has
\* returned for JSON, with the prefix, suffix and all_data files in place.
C16_Witness ==
    /\ prev.run = 2 /\ PhaseDone
    /\ fmt = "json" /\ data = Scenario3
    /\ call.grouped = "returned"
    /\ Cardinality(DOMAIN files) = 6
    /\ \A p \in DOMAIN writes : writes[p] = 1

WritesOf(w, p) == IF p \in DOMAIN w THEN w[p] ELSE 0

\* C19 (as claimed): once a sink invocation is terminal (its call has returned,
\* was skipped or has raised) no file write of that invocation takes place any
\* more, and no file write is run more than once, also when one of several
\* concurrent writes of a grouped sink fails while others are in flight
C19_TerminalIsFinal ==
    [][/\ call.grouped \in {"returned", "skipped", "raised"} =>
             \A t \in DOMAIN tasks :
                 WritesOf(writes', tasks[t].path) = WritesOf(writes, tasks[t].path)
       /\ call.save \in {"returned", "skipped", "exited"} =>
             WritesOf(writes', AllDataFile(fmt)) = WritesOf(writes, AllDataFile(fmt))
       /\ \A p \in DOMAIN writes' : writes'[p] <= 1]_vars

\* where a path lies on disk: its directory under datasets_dir, the stem of
\* its file name and its extension
Location(p) ==
    <<p.dir, IF p.kind = "all" THEN <<"all_data">> ELSE p.name, p.ext>>

\* C23: the partitioner and the sinks leave their inputs as they were: the
\* input list and its records are the same after partitioning, and once the
\* index is built no save_<fmt> or save_grouped_<fmt> step changes the list
\* or the prefixes, suffixes and buckets of the index (building the record
\* list of a prefix file extends no bucket).
C23_InputsUnchanged ==
    [][/\ data' = data
       /\ pc = "grouped" => grouped' = grouped]_vars

\* C23 witness: save_grouped_xml has returned over the index of the three
\* records of the scenario, where prefix 176 has two suffix buckets of one
\* record each.
C23_Witness ==
    /\ fmt = "xml" /\ call.grouped = "returned" /\ data = Scenario3
    /\ Len(grouped) = 2 /\ Len(grouped[1].value) = 2
    /\ \A j \in 1..2 : Len(grouped[1].value[j].value) = 1
    /\ files[PrefixFile("xml", Prefix(PC_1760005))].records
          = <<Scenario3[1], Scenario3[2]>>

\* C22: within one run over all formats, no two write tasks (whole-dataset,
\* prefix-file or suffix-file, of one format or of two) have the same output
\* path, and no file is written by more than one task.
C22_PathsExclusive ==
    /\ \A t, u \in 1..Len(tasks) :
          Location(tasks[t].path) = Location(tasks[u].path) => t = u
    /\ \A t \in 1..Len(tasks) :
          tstate[t] # "done" => tasks[t].path \notin DOMAIN writes
    /\ call.save \in {"none", "inthread"} => AllDataFile(fmt) \notin DOMAIN writes
    /\ \A q1, q2 \in DOMAIN writes : Location(q1) = Location(q2) => q1 = q2
    /\ \A q \in DOMAIN writes : writes[q] = 1

\* C22 witness: the run over the three records of the scenario has gone
\* through every format: 9 all_data files and 5 grouped files of each of the
\* 8 grouped formats, each written once.
C22_Witness ==
    /\ data = Scenario3 /\ fmt = FormatOrder[Len(FormatOrder)] /\ PhaseDone
    /\ Cardinality(DOMAIN writes) = 49
    /\ Cardinality({Location(q) : q \in DOMAIN writes}) = 49

\* the files of the tree other than the all_data files
GroupedPaths == {p \in DOMAIN files : p.kind # "all"}
PrefixPaths == {p \in DOMAIN files : p.kind = "prefix"}
SuffixPaths == {p \in DOMAIN files : p.kind = "suffix"}

\* the paths save_grouped_<fmt> is to write for the index g
ExpectedPrefixPaths(f, g) == {PrefixFile(f, g[i].key) : i \in 1..Len(g)}
ExpectedSuffixPaths(f, g) ==
    UNION {{SuffixFile(f, g[i].key, g[i].value[j].key) :
                j \in 1..Len(g[i].value)} : i \in 1..Len(g)}

Count(records, r) == Cardinality({k \in DOMAIN records : records[k] = r})
\* how often r occurs in the suffix buckets of one prefix
CountInBuckets(suffix_dict, r) ==
    SumSeq([j \in 1..Len(suffix_dict) |-> Count(suffix_dict[j].value, r)])

\* C6: when save_grouped_<fmt> has returned after running its writes, the
\* files written are exactly one <prefix>.<ext> per prefix, holding every
\* record of every suffix bucket of the prefix exactly once, and one
\* <prefix>/<suffix>.<ext> per suffix bucket, holding exactly that bucket's
\* records; no other file is written and none is written twice.
C6_GroupedFilesExact ==
    call.grouped = "returned" =>
        /\ GroupedPaths =
               ExpectedPrefixPaths(fmt, grouped) \cup ExpectedSuffixPaths(fmt, grouped)
        /\ \A p \in DOMAIN writes : writes[p] = 1
        /\ \A i \in 1..Len(grouped) :
              /\ \A r \in SinkRecords :
                    Count(files[PrefixFile(fmt, grouped[i].key)].records, r)
                        = CountInBuckets(grouped[i].value, r)
              /\ \A j \in 1..Len(grouped[i].value) :
                    files[SuffixFile(fmt, grouped[i].key,
                                     grouped[i].value[j].key)].records
                        = grouped[i].value[j].value

\* C6 witness: an NDJSON grouped write over two prefixes, one of them with a
\* bucket of two records, has returned with its four files.
C6_Witness ==
    /\ fmt = "ndjson" /\ call.grouped = "returned"
    /\ data = <<Rec(PC_1760005, "a"), Rec(PC_1000001, "a"), Rec(PC_1000001, "a")>>
    /\ Cardinality(GroupedPaths) = 4

\* C7 (as claimed): in every grouped sink a suffix bucket of exactly one
\* record is written as a one-element collection, the shape a bucket of two
\* or more records is written in, never as a bare record.
C7_SingletonAsCollection ==
    \A t \in DOMAIN tasks :
        (tstate[t] = "done" /\ tasks[t].path.kind = "suffix")
            => files[tasks[t].path].shape = "list"

PrefixOf(p) == IF p.kind = "prefix" THEN p.name ELSE p.dir

\* the records of data that belong in the file at path p, in source order
SourceOrder(p) ==
    CASE p.kind = "all" -> data
      [] p.kind = "prefix" ->
            SelectSeq(data, LAMBDA r : Prefix(r.postal_code) = p.name)
      [] p.kind = "suffix" ->
            SelectSeq(data, LAMBDA r : r.postal_code = p.dir \o p.name)

\* C8 (as claimed): in every file a sink has written (all_data, prefix and
\* suffix file) the records are in the relative order of the input sequence.
C8_SourceOrderInEveryFile ==
    \A p \in DOMAIN files :
        files[p] # Truncated => files[p].records = SourceOrder(p)

\* C9 (as claimed): for the input 1760005, 1760006, 1000001 the grouped write
\* of a format yields exactly 3 prefix files and 3 suffix files, and the
\* whole-dataset write one all_data file holding the 3 records.
C9_ThreeAndThree ==
    (data = Scenario3 /\ call.grouped = "returned") =>
        /\ Cardinality(PrefixPaths) = 3
        /\ Cardinality(SuffixPaths) = 3
        /\ AllDataFile(fmt) \in DOMAIN files
        /\ files[AllDataFile(fmt)].records = Scenario3

\* C9 (amended): for that input the grouped write yields exactly 2 prefix
\* files (176 and 100) and 3 suffix files (176/0005, 176/0006, 100/0001), and
\* the whole-dataset write one all_data file holding the 3 records in order.
C9_TwoAndThree ==
    /\ (data = Scenario3 /\ call.grouped = "returned") =>
          /\ PrefixPaths = {PrefixFile(fmt, Prefix(PC_1760005)),
                            PrefixFile(fmt, Prefix(PC_1000001))}
          /\ SuffixPaths =
                 {SuffixFile(fmt, Prefix(c), Suffix(c)) :
                      c \in {PC_1760005, PC_1760006, PC_1000001}}
          /\ Cardinality(PrefixPaths) = 2
          /\ Cardinality(SuffixPaths) = 3
    /\ (data = Scenario3 /\ call.save = "returned") =>
          /\ {p \in DOMAIN files : p.kind = "all"} = {AllDataFile(fmt)}
          /\ files[AllDataFile(fmt)].records = Scenario3

\* C9 witness: both writes of the scenario have returned for TOML.
C9_Witness ==
    /\ data = Scenario3 /\ fmt = "toml"
    /\ call.save = "returned" /\ call.grouped = "returned"
    /\ Cardinality(DOMAIN files) = 6

-----------------------------------------------------------------------------
(* Properties of the index the partitioner returns *)

\* the buckets of the index that hold r, as <<prefix position, suffix position>>
BucketsWith(g, r) ==
    {ij \in UNION {{<<i, j>> : j \in 1..Len(g[i].value)} : i \in 1..Len(g)} :
        Count(g[ij[1]].value[ij[2]].value, r) > 0}

\* the number of records over all buckets
TotalInBuckets(g) ==
    SumSeq([i \in 1..Len(g) |->
              SumSeq([j \in 1..Len(g[i].value) |-> Len(g[i].value[j].value)])])

\* C24: group_by_postal_code_prefix conserves records: in the index it
\* returns every record with a postal_code of length 7 is in exactly one
\* bucket, as often as it is in the input, and the number of records over
\* all buckets plus the skipped count is the length of the input.
C24_RecordsConserved ==
    pc = "grouped" =>
        /\ \A r \in AllRecords :
              Len(r.postal_code) = 7 /\ Count(data, r) > 0 =>
                  /\ Cardinality(BucketsWith(grouped, r)) = 1
                  /\ \A ij \in BucketsWith(grouped, r) :
                        Count(grouped[ij[1]].value[ij[2]].value, r)
                            = Count(data, r)
        /\ TotalInBuckets(grouped) + skipped_count = Len(data)

\* C24 witness: a record of 1760005 twice with a 3-character code between
\* them: one bucket of two records and one record skipped.
C24_Witness ==
    /\ pc = "grouped"
    /\ data = <<Rec(PC_1760005, "a"), Rec(PC_123, "a"), Rec(PC_1760005, "a")>>
    /\ skipped_count = 1 /\ TotalInBuckets(grouped) = 2

\* C25: the index group_by_postal_code_prefix returns has no prefix without
\* suffixes and no suffix bucket without records, so `records[0]`, which
\* every grouped sink takes of a bucket of length <= 1, is defined.
C25_NoEmptyBucket ==
    pc = "grouped" =>
        /\ \A i \in 1..Len(grouped) :
              /\ Len(grouped[i].value) > 0
              /\ \A j \in 1..Len(grouped[i].value) :
                    /\ Len(grouped[i].value[j].value) > 0
                    /\ SuffixArgument(grouped[i].value[j].value).records
                          = grouped[i].value[j].value
        /\ ~HasEmptyBucket(grouped)

\* C25 witness: a skipped record and a record of 1000001: the one bucket has
\* one record, which the sinks take out of its list.
C25_Witness ==
    /\ pc = "grouped"
    /\ data = <<Rec(PC_123, "a"), Rec(PC_1000001, "a")>>
    /\ Len(grouped) = 1 /\ Len(grouped[1].value) = 1
    /\ SuffixArgument(grouped[1].value[1].value) = Bare(Rec(PC_1000001, "a"))

-----------------------------------------------------------------------------
(* The order of the records in a prefix file *)

\* the distinct elements of cs in the order in which each first appears
RECURSIVE FirstAppearances(_)
FirstAppearances(cs) ==
    IF cs = <<>> THEN <<>>
    ELSE LET before == FirstAppearances(SubSeq(cs, 1, Len(cs) - 1))
             c == cs[Len(cs)]
         IN IF \E k \in 1..Len(before) : before[k] = c THEN before
            ELSE Append(before, c)

\* the records of data under a prefix, suffix by suffix in the order in which
\* the suffixes first appear in data, each suffix in the order of data
BySuffix(prefix) ==
    LET under == SelectSeq(data, LAMBDA r : Prefix(r.postal_code) = prefix)
        codes == FirstAppearances([k \in 1..Len(under) |-> under[k].postal_code])
    IN ConcatAll([k \in 1..Len(codes) |->
                     SelectSeq(data, LAMBDA r : r.postal_code = codes[k])])

\* records of two suffixes of the prefix are interleaved in data
Interleaved(prefix) ==
    \E i, j, k \in 1..Len(data) :
        /\ i < j /\ j < k
        /\ \A m \in {i, j, k} : Prefix(data[m].postal_code) = prefix
        /\ data[i].postal_code = data[k].postal_code
        /\ data[j].postal_code # data[i].postal_code

\* C26: in every save_grouped_<fmt> the records of a prefix file are the
\* suffix buckets of the prefix one after the other, in the order in which
\* each suffix first appears in the input, each bucket in input order; the
\* file differs from source order whenever records of two suffixes of the
\* prefix are interleaved in the input.
C26_PrefixFileBySuffix ==
    \A t \in 1..Len(tasks) :
        (tstate[t] = "done" /\ tasks[t].path.kind = "prefix") =>
            /\ files[tasks[t].path].records = BySuffix(tasks[t].path.name)
            /\ Interleaved(tasks[t].path.name) =>
                  files[tasks[t].path].records # SourceOrder(tasks[t].path)

\* C26 witness: 1760005, 1760006, 1760005 written by save_grouped_ndjson:
\* 176.ndjson holds the two records of 0005 and then the record of 0006.
C26_Witness ==
    /\ fmt = "ndjson" /\ call.grouped = "returned"
    /\ data = <<Rec(PC_1760005, "a"), Rec(PC_1760006, "a"), Rec(PC_1760005, "a")>>
    /\ Interleaved(Prefix(PC_1760005))
    /\ files[PrefixFile("ndjson", Prefix(PC_1760005))].records
          = <<Rec(PC_1760005, "a"), Rec(PC_1760005, "a"), Rec(PC_1760006, "a")>>

-----------------------------------------------------------------------------
(* Termination of a grouped sink *)

\* C27: if every file write ends without error, save_grouped_<fmt> ends for
\* any number of tasks, more than the semaphore admits at once included:
\* no task is left waiting, each task completes once, and the call returns
\* only when all of them have completed.
C27_GroupedCallTerminates ==
    /\ <>(lim.call = "returned")
    /\ [](lim.call = "running" =>
              lim.waiting + lim.holders + lim.done = lim.n)
    /\ [](lim.call = "returned" =>
              lim.done = lim.n /\ lim.waiting = 0 /\ lim.holders = 0)
    /\ [][lim'.done \in {lim.done, lim.done + 1}]_vars

\* C27 witness: a CSV call with two tasks more than the semaphore admits has
\* returned with every task completed.
C27_Witness ==
    /\ fmt = "csv" /\ lim.call = "returned"
    /\ lim.n = DefaultLimit + 2 /\ lim.done = lim.n

-----------------------------------------------------------------------------
(* The slots of the semaphore *)

\* the slots of the call's semaphore that are taken
HeldSlots == Limit(fmt) - sem_value

\* C28: in every save_grouped_<fmt> a task gives its slot back when its write
\* ends, whether the write succeeded or raised: the slots taken are those of
\* the tasks whose write is under way, and none is taken once every task has
\* ended.
C28_SlotReleasedOnEveryExit ==
    tasks # <<>> =>
        /\ HeldSlots = Cardinality({t \in DOMAIN tstate : tstate[t] = "inflight"})
        /\ (\A t \in DOMAIN tstate : tstate[t] \in {"done", "raised"})
              => HeldSlots = 0

\* C28 witness: a TOML call of three tasks has ended, one write having
\* raised and two completed, and no slot is taken.
C28_Witness ==
    /\ fmt = "toml" /\ call.grouped = "raised" /\ Len(tasks) = 3
    /\ Cardinality({t \in DOMAIN tstate : tstate[t] = "raised"}) = 1
    /\ Cardinality({t \in DOMAIN tstate : tstate[t] = "done"}) = 2
    /\ HeldSlots = 0

-----------------------------------------------------------------------------
(* The progress task of a sink *)

\* the counts the manager holds for a task: task_status[name] in simple
\* mode, the rich task of the name otherwise
TaskCounts(p, name) ==
    IF p.simple_mode THEN Get(p.task_status, name)
    ELSE p.rich_tasks[Get(p.tasks, name) + 1]

\* C29 (as claimed): for every save_grouped_<fmt> and every index, the total
\* of the progress task is the number of write tasks created, its completed
\* count never exceeds the total while the sink runs, and equals the total
\* when the call returns successfully
C29_GroupedProgressComplete ==
    call.grouped \in {"running", "raised", "returned"} =>
        LET counts == TaskCounts(progress, GroupedTaskName(fmt))
        IN /\ counts.total = Len(tasks)
           /\ counts.completed <= counts.total
           /\ call.grouped = "returned" => counts.completed = counts.total

\* C30 (as claimed): whenever a whole-dataset save returns normally, for any
\* input list, the empty list included, its all_data file has been written
\* and its progress task stands at completed = total = 1
C30_SaveWritesAndCompletes ==
    call.save = "returned" =>
        /\ AllDataFile(fmt) \in DOMAIN files
        /\ WritesOf(writes, AllDataFile(fmt)) = 1
        /\ TaskCounts(progress, AllDataTaskName(fmt)).total = 1
        /\ TaskCounts(progress, AllDataTaskName(fmt)).completed = 1

====
